---- MODULE Spec2Model ----
(***************************************************************************)
(* Model of the medication tracker: the dose-scheduling engine             *)
(* (src/src/lib/schedule.ts), the dose log store (src/src/lib/redis.ts)    *)
(* and the request handlers that orchestrate them (api/dose, api/cron,     *)
(* api/telegram/webhook).                                                  *)
(*                                                                         *)
(* Time: every instant is a number of milliseconds on the LOCAL time line, *)
(* counted from local midnight of day 0; the time zone has a fixed offset  *)
(* (no daylight-saving change inside the modelled days).  All instants the *)
(* model uses lie on day 1 or later, so a real timestamp is never 0.       *)
(***************************************************************************)
EXTENDS Integers, Sequences, FiniteSets, TLC

VARIABLES now, doses, lastReminder, chatId, due, resp, args, ret, inv,
          sentLog

vars == <<now, doses, lastReminder, chatId, due, resp, args, ret, inv,
         sentLog>>

(***************************************************************************)
(* Bounds of the model.                                                    *)
(***************************************************************************)
MaxDay == 2

MaxLen == 3

MaxQuota == 3

MaxLog == 2

(***************************************************************************)
(* JavaScript values and Date arithmetic.                                  *)
(***************************************************************************)
Null == -1

NullChat == "null"

Falsy(x) == x = Null \/ x = 0

MS_PER_MIN == 60000

MS_PER_HOUR == 1000 * 60 * 60

MS_PER_DAY == 24 * MS_PER_HOUR

getHours(d) == (d % MS_PER_DAY) \div MS_PER_HOUR

getDay(d) == d \div MS_PER_DAY

setHours(d, h, m, s, ms) ==
    (d - (d % MS_PER_DAY)) + h * MS_PER_HOUR + m * MS_PER_MIN + s * 1000 + ms

addDays(d, n) == d + n * MS_PER_DAY

(***************************************************************************)
(* schedule.ts: constants.                                                 *)
(***************************************************************************)
SLEEP_GAP_HOURS == 6

DOSES_PER_DAY == 5

WAKE_START_HOUR == 9

WAKE_END_HOUR == 23

WAKE_DURATION_MINS == (WAKE_END_HOUR - WAKE_START_HOUR) * 60

INTERVAL_MINS == WAKE_DURATION_MINS \div (DOSES_PER_DAY - 1)

INTERVAL_MS == INTERVAL_MINS * 60 * 1000

NEVER_TAKEN_MINUTES == 999

(***************************************************************************)
(* schedule.ts: the engine.  The ambient clock (Date.now(), new Date()) is *)
(* the extra parameter t; one call reads one clock value.                  *)
(***************************************************************************)
isFirstDoseOfDayStrict(lastDoseTimestamp, t) ==
    \/ Falsy(lastDoseTimestamp)
    \/ t - lastDoseTimestamp > SLEEP_GAP_HOURS * MS_PER_HOUR

\* hoursSinceLastDose = (t - last) / 3600000 >= 6  iff  t - last >= 6 hours
isFirstDoseOfDay(lastDoseTimestamp, t) ==
    \/ Falsy(lastDoseTimestamp)
    \/ t - lastDoseTimestamp >= SLEEP_GAP_HOURS * MS_PER_HOUR

isInSleepHoursLate(date) ==
    getHours(date) > WAKE_END_HOUR \/ getHours(date) < WAKE_START_HOUR

isInSleepHours(date) ==
    getHours(date) >= WAKE_END_HOUR \/ getHours(date) < WAKE_START_HOUR

getNextWakeTimeSameDay(fromDate) ==
    setHours(fromDate, WAKE_START_HOUR, 0, 0, 0)

getNextWakeTimeLegacyHour(fromDate) ==
    LET result == setHours(fromDate, WAKE_START_HOUR - 1, 0, 0, 0)
    IN  IF result <= fromDate THEN addDays(result, 1) ELSE result

getNextWakeTime(fromDate) ==
    LET result == setHours(fromDate, WAKE_START_HOUR, 0, 0, 0)
    IN  IF result <= fromDate THEN addDays(result, 1) ELSE result

tomorrowMorningOfLastDose(lastDoseTimestamp, t) ==
    setHours(addDays(lastDoseTimestamp, 1), WAKE_START_HOUR, 0, 0, 0)

tomorrowMorningNoRollover(lastDoseTimestamp, t) ==
    setHours(t, WAKE_START_HOUR, 0, 0, 0)

\* lines 74-77: tomorrow = new Date(); setDate(+1); setHours(9, 0, 0, 0)
tomorrowMorning(lastDoseTimestamp, t) ==
    setHours(addDays(t, 1), WAKE_START_HOUR, 0, 0, 0)

calculateNextDoseTime(lastDoseTimestamp, dosesToday, maxDosesToday, t) ==
    IF Falsy(lastDoseTimestamp) THEN t
    ELSE IF isFirstDoseOfDay(lastDoseTimestamp, t) THEN t
    ELSE IF Len(dosesToday) >= maxDosesToday
         THEN tomorrowMorning(lastDoseTimestamp, t)
    ELSE LET nextDose == lastDoseTimestamp + INTERVAL_MS
         IN  IF isInSleepHours(nextDose)
             THEN getNextWakeTime(nextDose)
             ELSE nextDose

simulateTakenAlways(dosesToday, nextTime, t) == Append(dosesToday, nextTime)

\* lines 106-116: the simulated today-list
simulateTaken(dosesToday, nextTime, t) ==
    LET todayStart == setHours(t, 0, 0, 0, 0)
        todayEnd   == setHours(t, 23, 59, 59, 999)
    IN  IF nextTime >= todayStart /\ nextTime <= todayEnd
        THEN Append(dosesToday, nextTime)
        ELSE dosesToday

calculateNextTwoDoses(lastDoseTimestamp, dosesToday, maxDosesToday, t) ==
    LET next == calculateNextDoseTime(lastDoseTimestamp, dosesToday,
                                      maxDosesToday, t)
        simulatedDosesToday == simulateTaken(dosesToday, next, t)
        nextNext == calculateNextDoseTime(next, simulatedDosesToday,
                                          maxDosesToday, t)
    IN  [next |-> next, nextNext |-> nextNext]

floorMinutesCeil(ms) == (ms + MS_PER_MIN - 1) \div MS_PER_MIN

\* Math.floor(ms / 60000); \div rounds toward minus infinity like Math.floor
floorMinutes(ms) == ms \div MS_PER_MIN

getOverdueMinutes(lastDoseTimestamp, dosesToday, maxDosesToday, t) ==
    IF Falsy(lastDoseTimestamp) THEN NEVER_TAKEN_MINUTES
    ELSE LET nextDueTime == calculateNextDoseTime(lastDoseTimestamp,
                                dosesToday, maxDosesToday, t)
         IN  IF t <= nextDueTime THEN 0
             ELSE floorMinutes(t - nextDueTime)

getMinutes(d) == (d % MS_PER_HOUR) \div MS_PER_MIN

sameDayWithin24h(timestamp1, timestamp2) ==
    timestamp1 - timestamp2 < MS_PER_DAY /\ timestamp2 - timestamp1 < MS_PER_DAY

\* same year, month and day of the month: the same local calendar day
sameDay(timestamp1, timestamp2) == getDay(timestamp1) = getDay(timestamp2)

floorDiv(a, b) == a \div b

\* Math.ceil(a / b) for a >= 0, b > 0
ceilDiv(a, b) == (a + b - 1) \div b

MathMax(a, b) == IF a >= b THEN a ELSE b

calculateFirstDayMax(firstDoseTimestamp) ==
    LET minutesFromMidnight == getHours(firstDoseTimestamp) * 60
                                 + getMinutes(firstDoseTimestamp)
        wakeStartMins == WAKE_START_HOUR * 60
        wakeEndMins == WAKE_END_HOUR * 60
        minutesSinceWake == minutesFromMidnight - wakeStartMins
        slotsMissed == ceilDiv(minutesSinceWake, INTERVAL_MINS)
        dosesRemaining == DOSES_PER_DAY - slotsMissed
    IN  IF minutesFromMidnight >= wakeEndMins THEN 1
        ELSE IF minutesFromMidnight <= wakeStartMins THEN DOSES_PER_DAY
        ELSE MathMax(1, dosesRemaining)

getMaxDosesForToday(dosesToday, firstDoseEver) ==
    IF firstDoseEver = Null THEN DOSES_PER_DAY
    ELSE IF Len(dosesToday) = 0 THEN DOSES_PER_DAY
    ELSE IF sameDay(dosesToday[1], firstDoseEver)
         THEN calculateFirstDayMax(firstDoseEver)
    ELSE DOSES_PER_DAY

MathAbs(x) == IF x < 0 THEN -x ELSE x

underAnHourInclusive(mins) == mins <= 60

\* if (overdueMins < 60), if (totalMins < 60)
underAnHour(mins) == mins < 60

\* a rendered string is its template with the numbers that fill it
formatTimeUntil(targetDate, t) ==
    LET diffMs == targetDate - t
        overdueMins == MathAbs(floorMinutes(diffMs))
        totalMins == floorMinutes(diffMs)
    IN  IF diffMs < 0
        THEN IF underAnHour(overdueMins)
             THEN [form |-> "{m}m overdue", h |-> Null, m |-> overdueMins]
             ELSE [form |-> "{h}h {m}m overdue", h |-> overdueMins \div 60,
                   m |-> overdueMins % 60]
        ELSE IF underAnHour(totalMins)
             THEN [form |-> "in {m}m", h |-> Null, m |-> totalMins]
             ELSE [form |-> "in {h}h {m}m", h |-> totalMins \div 60,
                   m |-> totalMins % 60]

(***************************************************************************)
(* redis.ts: the dose log is the sorted set "doses"; an entry has the      *)
(* timestamp as score and its decimal string as member, and the set holds  *)
(* one entry per member.                                                   *)
(***************************************************************************)
RECURSIVE toString(_)
toString(n) ==
    IF n < 10 THEN <<n>> ELSE Append(toString(n \div 10), n % 10)

RECURSIVE parseInt(_)
parseInt(s) ==
    IF Len(s) = 0 THEN 0
    ELSE parseInt(SubSeq(s, 1, Len(s) - 1)) * 10 + s[Len(s)]

zadd(zset, score, member) ==
    {e \in zset : e.member # member} \cup
        {[score |-> score, member |-> member]}

\* members of zset in ascending score order
RECURSIVE zrangeAll(_)
zrangeAll(zset) ==
    IF zset = {} THEN <<>>
    ELSE LET lo == CHOOSE e \in zset : \A f \in zset : e.score <= f.score
         IN  <<lo.member>> \o zrangeAll(zset \ {lo})

zrangeByScore(zset, min, max) ==
    zrangeAll({e \in zset : e.score >= min /\ e.score <= max})

mapParseInt(results) == [i \in 1..Len(results) |-> parseInt(results[i])]

logDoseLatestOnly(zset, timestamp) ==
    zadd({}, timestamp, toString(timestamp))

logDose(zset, timestamp) == zadd(zset, timestamp, toString(timestamp))

getLastDose(zset) ==
    LET results == zrangeAll(zset)
    IN  IF Len(results) = 0 THEN Null ELSE parseInt(results[Len(results)])

getFirstDoseEver(zset) ==
    LET results == zrangeAll(zset)
    IN  IF Len(results) = 0 THEN Null ELSE parseInt(results[1])

getDosesTodayUntilNow(zset, t) ==
    mapParseInt(zrangeByScore(zset, setHours(t, 0, 0, 0, 0), t))

getDosesToday(zset, t) ==
    LET startOfDay == setHours(t, 0, 0, 0, 0)
        endOfDay   == setHours(t, 23, 59, 59, 999)
    IN  mapParseInt(zrangeByScore(zset, startOfDay, endOfDay))

(***************************************************************************)
(* Instants used as inputs.                                                *)
(***************************************************************************)
At(h, m, s, ms) == h * MS_PER_HOUR + m * MS_PER_MIN + s * 1000 + ms

Days == 1..MaxDay

OnDay(d, tod) == d * MS_PER_DAY + tod

EngineTimesOfDay ==
    { At(0, 0, 0, 0),   At(0, 30, 0, 0),   At(3, 0, 0, 0),
      At(5, 29, 59, 999), At(5, 30, 0, 0),
      At(8, 59, 59, 999), At(9, 0, 0, 0),  At(9, 0, 0, 1),
      At(12, 30, 0, 0), At(12, 30, 59, 999), At(13, 16, 0, 0),
      At(15, 0, 0, 0),
      At(19, 29, 59, 999), At(19, 30, 0, 0), At(22, 0, 0, 0),
      At(22, 59, 59, 999), At(23, 0, 0, 0), At(23, 59, 59, 999) }

EngineTimes == {OnDay(d, tod) : d \in Days, tod \in EngineTimesOfDay}

\* a today-list of n entries on the day of t, ascending, 210 minutes apart
TodayList(n, t) ==
    [i \in 1..n |-> setHours(t, 0, 0, 0, 0) + (i - 1) * INTERVAL_MS]

NoArgs == [lastDoseTimestamp |-> Null, dosesToday |-> <<>>,
           maxDosesToday |-> 0, firstDoseEver |-> Null, targetDate |-> Null]

NoText == [form |-> "", h |-> Null, m |-> Null]

NoRet == [fn |-> "none", next |-> Null, nextNext |-> Null, minutes |-> Null,
          quota |-> Null, text |-> NoText]

NoResp == [op |-> "none", status |-> 0, message |-> "", sent |-> FALSE,
           next |-> Null, overdueMinutes |-> Null, lastReminderTime |-> Null,
           timestamp |-> Null, logged |-> Null, dosesToday |-> <<>>,
           caught |-> FALSE, maxDosesToday |-> Null, timeUntil |-> NoText]

NoDue == [dose |-> Null, next |-> Null]

Invocations == {"a", "b"}

\* a cron invocation: its position, the values it has read so far
\* (Date.now() of line 39, overdueMinutes, the last-reminder timestamp) and
\* its response
NoInvocation == [pc |-> "idle", now |-> Null, overdueMinutes |-> Null,
                 lastReminderTime |-> Null, status |-> 0, message |-> "",
                 overlapped |-> FALSE, sawWrite |-> FALSE]

NoInvocations == [i \in Invocations |-> NoInvocation]

(***************************************************************************)
(* The engine on its own: the arguments are drawn at Init, each action is  *)
(* one call of an exported function at clock value now.                    *)
(***************************************************************************)
InitEngine ==
    /\ now \in EngineTimes
    /\ \E last \in EngineTimes \cup {Null}, n \in 0..MaxLen, q \in 1..MaxQuota :
          args = [lastDoseTimestamp |-> last, dosesToday |-> TodayList(n, now),
                  maxDosesToday |-> q, firstDoseEver |-> Null,
                  targetDate |-> Null]
    /\ ret = NoRet
    /\ inv = NoInvocations
    /\ sentLog = {}
    /\ doses = {}
    /\ lastReminder = Null
    /\ chatId = NullChat
    /\ due = NoDue
    /\ resp = NoResp

CallCalculateNextDoseTime ==
    /\ ret' = [fn |-> "calculateNextDoseTime",
               next |-> calculateNextDoseTime(args.lastDoseTimestamp,
                            args.dosesToday, args.maxDosesToday, now),
               nextNext |-> Null, minutes |-> Null, quota |-> Null,
               text |-> NoText]
    /\ UNCHANGED <<now, args, doses, lastReminder, chatId, due, resp, inv,
                 sentLog>>

CallCalculateNextTwoDoses ==
    /\ LET two == calculateNextTwoDoses(args.lastDoseTimestamp,
                      args.dosesToday, args.maxDosesToday, now)
       IN  ret' = [fn |-> "calculateNextTwoDoses", next |-> two.next,
                   nextNext |-> two.nextNext, minutes |-> Null,
                   quota |-> Null, text |-> NoText]
    /\ UNCHANGED <<now, args, doses, lastReminder, chatId, due, resp, inv,
                 sentLog>>

CallGetOverdueMinutes ==
    /\ ret' = [fn |-> "getOverdueMinutes", next |-> Null, nextNext |-> Null,
               minutes |-> getOverdueMinutes(args.lastDoseTimestamp,
                            args.dosesToday, args.maxDosesToday, now),
               quota |-> Null, text |-> NoText]
    /\ UNCHANGED <<now, args, doses, lastReminder, chatId, due, resp, inv,
                 sentLog>>

NextEngine ==
    \/ CallCalculateNextDoseTime
    \/ CallCalculateNextTwoDoses
    \/ CallGetOverdueMinutes

SpecEngine == InitEngine /\ [][NextEngine]_vars

(***************************************************************************)
(* The day's quota: calls of getMaxDosesForToday and of the function it    *)
(* uses for day one, calculateFirstDayMax, on args.firstDoseEver.          *)
(***************************************************************************)
QuotaTimesOfDay ==
    { At(0, 0, 0, 0),  At(8, 59, 0, 0),  At(9, 0, 0, 0), At(9, 0, 59, 999),
      At(9, 1, 0, 0),  At(12, 30, 0, 0), At(12, 31, 0, 0), At(15, 30, 0, 0),
      At(16, 0, 0, 0), At(16, 1, 0, 0),  At(19, 30, 0, 0), At(19, 31, 0, 0),
      At(22, 59, 59, 999), At(23, 0, 0, 0), At(23, 59, 59, 999) }

QuotaTimes == {OnDay(d, tod) : d \in Days, tod \in QuotaTimesOfDay}

\* an ascending today-list of n entries that starts at first
TodayListFrom(first, n) == [i \in 1..n |-> first + (i - 1) * 1000]

InitQuota ==
    /\ now = OnDay(MaxDay, At(23, 59, 59, 999))
    /\ \E ever \in QuotaTimes \cup {Null}, first \in QuotaTimes,
          n \in 0..MaxLen :
          /\ ever # Null => ever <= first
          /\ n = 0 => first = OnDay(1, 0)
          /\ args = [lastDoseTimestamp |-> Null,
                     dosesToday |-> TodayListFrom(first, n),
                     maxDosesToday |-> 0, firstDoseEver |-> ever,
                     targetDate |-> Null]
    /\ ret = NoRet
    /\ doses = {}
    /\ lastReminder = Null
    /\ chatId = NullChat
    /\ due = NoDue
    /\ resp = NoResp
    /\ inv = NoInvocations
    /\ sentLog = {}

CallGetMaxDosesForToday ==
    /\ ret' = [NoRet EXCEPT !.fn = "getMaxDosesForToday",
                            !.quota = getMaxDosesForToday(args.dosesToday,
                                          args.firstDoseEver)]
    /\ UNCHANGED <<now, args, doses, lastReminder, chatId, due, resp, inv,
                   sentLog>>

CallCalculateFirstDayMax ==
    /\ args.firstDoseEver # Null
    /\ ret' = [NoRet EXCEPT !.fn = "calculateFirstDayMax",
                            !.quota = calculateFirstDayMax(args.firstDoseEver)]
    /\ UNCHANGED <<now, args, doses, lastReminder, chatId, due, resp, inv,
                   sentLog>>

NextQuota == CallGetMaxDosesForToday \/ CallCalculateFirstDayMax

SpecQuota == InitQuota /\ [][NextQuota]_vars

(***************************************************************************)
(* Rendering: calls of formatTimeUntil on args.targetDate at the clock now. *)
(***************************************************************************)
FormatNowTimes ==
    {OnDay(1, At(9, 0, 0, 0)), OnDay(1, At(23, 30, 0, 0)),
     OnDay(MaxDay, At(12, 0, 0, 1))}

FormatSpans ==
    { 0, 1, 59999, 60000, 60001, 59 * 60000, 60 * 60000 - 1, 60 * 60000,
      60 * 60000 + 1, 95 * 60000, 95 * 60000 + 1, 210 * 60000,
      6 * 3600000 + 59999 }

FormatDiffs == FormatSpans \cup {-d : d \in FormatSpans}

InitFormat ==
    /\ now \in FormatNowTimes
    /\ \E d \in FormatDiffs : args = [NoArgs EXCEPT !.targetDate = now + d]
    /\ ret = NoRet
    /\ doses = {}
    /\ lastReminder = Null
    /\ chatId = NullChat
    /\ due = NoDue
    /\ resp = NoResp
    /\ inv = NoInvocations
    /\ sentLog = {}

CallFormatTimeUntil ==
    /\ ret' = [NoRet EXCEPT !.fn = "formatTimeUntil",
                            !.text = formatTimeUntil(args.targetDate, now)]
    /\ UNCHANGED <<now, args, doses, lastReminder, chatId, due, resp, inv,
                   sentLog>>

NextFormat == CallFormatTimeUntil

SpecFormat == InitFormat /\ [][NextFormat]_vars

(***************************************************************************)
(* The deployed system: the store (dose log, reminder timestamp, chat id), *)
(* the wall clock and the request handlers.  A handler runs to completion  *)
(* at one clock value; resp is the response of the invocation made at the  *)
(* current instant, and due is the next-dose time reported to the user by  *)
(* the handler that logged a dose.                                         *)
(***************************************************************************)
SysTimesOfDay == { At(9, 0, 0, 0), At(12, 45, 0, 0), At(19, 30, 0, 0) }

SysTimes == {OnDay(d, tod) : d \in Days, tod \in SysTimesOfDay}

ReminderTimesOfDay ==
    { At(9, 0, 0, 0), At(12, 45, 0, 0), At(13, 14, 59, 999),
      At(13, 15, 0, 0), At(15, 0, 0, 0), At(19, 30, 0, 0) }

ReminderTimes == {OnDay(d, tod) : d \in Days, tod \in ReminderTimesOfDay}

ChatIds == {"c1", "c2"}

PostFails == {"none", "logDose", "getDosesToday", "getTelegramChatId"}

GetFails == {"none", "getLastDose", "getDosesToday"}

\* the store calls on the path of each bot command
WebhookFails(text) ==
    CASE text = "/start"  -> {"none", "saveTelegramChatId"}
      [] text = "/take"   -> {"none", "logDose", "getDosesToday"}
      [] text = "/status" -> {"none", "getLastDose", "getDosesToday",
                              "getFirstDoseEver"}
      [] OTHER            -> {"none"}

setLastReminderTimeSeconds(timestamp) == timestamp \div 1000

\* redis.set(LAST_REMINDER_KEY, timestamp): the value the key holds afterwards
setLastReminderTime(timestamp) == timestamp

CronFails == {"none", "getTelegramChatId", "getLastDose", "getDosesToday",
              "getLastReminderTime", "setLastReminderTime"}

REMINDER_THRESHOLD_MINS == 15

REMINDER_GAP_MS == 30 * 60 * 1000

BACKDATE_LIMIT_MS == 4 * 60 * 60 * 1000

FUTURE_TOLERANCE_MS == 60000

Response(op, status, message, sent, next, overdueMinutes) ==
    [op |-> op, status |-> status, message |-> message, sent |-> sent,
     next |-> next, overdueMinutes |-> overdueMinutes,
     lastReminderTime |-> Null, timestamp |-> Null, logged |-> Null,
     dosesToday |-> <<>>, caught |-> (status = 500), maxDosesToday |-> Null,
     timeUntil |-> NoText]

InitSystem ==
    /\ now = OnDay(1, At(9, 0, 0, 0))
    /\ doses = {}
    /\ lastReminder = Null
    /\ chatId = NullChat
    /\ due = NoDue
    /\ resp = NoResp
    /\ args = NoArgs
    /\ ret = NoRet
    /\ inv = NoInvocations
    /\ sentLog = {}

\* the wall clock advances; the response in flight has been delivered
Tick(times) ==
    /\ \E t \in times : t > now /\ now' = t
    /\ resp' = NoResp
    /\ UNCHANGED <<doses, lastReminder, chatId, due, args, ret, inv, sentLog>>

\* the modelled log holds at most MaxLog entries
CanLog(timestamp) ==
    \/ \E e \in doses : e.member = toString(timestamp)
    \/ Cardinality(doses) < MaxLog

inFutureNoTolerance(timestamp, t) == timestamp > t

\* line 75: timestamp > now + 60000
inFuture(timestamp, t) == timestamp > t + FUTURE_TOLERANCE_MS

tooOldInclusive(timestamp, t) == timestamp <= t - BACKDATE_LIMIT_MS

\* lines 73, 82: timestamp < fourHoursAgo
tooOld(timestamp, t) == timestamp < t - BACKDATE_LIMIT_MS

\* POST /api/dose
PostDose(bodyTimestamp, fail, sendOk) ==
    LET timestamp == IF Falsy(bodyTimestamp) THEN now ELSE bodyTimestamp
        logged == logDose(doses, timestamp)
        dosesToday == getDosesToday(logged, now)
        next == calculateNextTwoDoses(timestamp, dosesToday,
                                      DOSES_PER_DAY, now).next
        Answer(status, message, sent, nextDose) ==
            [Response("postDose", status, message, sent, nextDose, Null)
                EXCEPT !.timestamp = timestamp]
    IN  /\ IF inFuture(timestamp, now)
           THEN /\ resp' = Answer(400, "Cannot log future doses", FALSE,
                                  Null)
                /\ UNCHANGED <<doses, due>>
           ELSE IF tooOld(timestamp, now)
           THEN /\ resp' = Answer(400, "Cannot backdate more than 4 hours",
                                  FALSE, Null)
                /\ UNCHANGED <<doses, due>>
           ELSE IF fail = "logDose"
           THEN /\ resp' = Answer(500, "Failed to log dose", FALSE, Null)
                /\ UNCHANGED <<doses, due>>
           ELSE IF fail \in {"getDosesToday", "getTelegramChatId"}
           THEN /\ resp' = Answer(500, "Failed to log dose", FALSE, Null)
                /\ doses' = logged
                /\ UNCHANGED due
           ELSE /\ resp' = [Answer(200, "success",
                                   chatId # NullChat /\ sendOk, next)
                            EXCEPT !.logged = timestamp,
                                   !.dosesToday = dosesToday]
                /\ doses' = logged
                /\ due' = [dose |-> timestamp, next |-> next]
        /\ UNCHANGED <<now, lastReminder, chatId, args, ret, inv, sentLog>>

\* GET /api/dose
GetDose(fail) ==
    LET lastDoseTimestamp == getLastDose(doses)
        dosesToday == getDosesToday(doses, now)
        two == calculateNextTwoDoses(lastDoseTimestamp, dosesToday,
                                     DOSES_PER_DAY, now)
        overdueMinutes == getOverdueMinutes(lastDoseTimestamp, dosesToday,
                                            DOSES_PER_DAY, now)
    IN  /\ IF fail \in {"getLastDose", "getDosesToday"}
           THEN resp' = Response("getDose", 500, "Failed to fetch dose data",
                                 FALSE, Null, Null)
           ELSE resp' = [Response("getDose", 200, "ok", FALSE, two.next,
                                  overdueMinutes)
                         EXCEPT !.timeUntil = formatTimeUntil(two.next, now)]
        /\ UNCHANGED <<now, doses, lastReminder, chatId, due, args, ret, inv,
                       sentLog>>

saveTelegramChatIdNone(id) == NullChat

\* redis.hset(SETTINGS_KEY, {telegram_chat_id: chatId}): the value held afterwards
saveTelegramChatId(id) == id

Ack(sent) == Response("webhook", 200, "ok", sent, Null, Null)

SwallowedAsError(sent) ==
    Response("webhook", 500, "Webhook failed", sent, Null, Null)

\* the catch block logs the error and acknowledges all the same
Swallowed(sent) == [Ack(sent) EXCEPT !.caught = TRUE]

\* POST /api/telegram/webhook; text is the trimmed, lower-cased message text
\* ("" for an update without message text)
Webhook(text, chat, fail, sendOk) ==
    /\ CASE text = "" ->
              /\ resp' = Ack(FALSE)
              /\ UNCHANGED <<doses, chatId, due>>
         [] text = "/start" ->
              IF fail = "saveTelegramChatId"
              THEN /\ resp' = Swallowed(FALSE)
                   /\ UNCHANGED <<doses, chatId, due>>
              ELSE /\ chatId' = saveTelegramChatId(chat)
                   /\ resp' = Ack(sendOk)
                   /\ UNCHANGED <<doses, due>>
         [] text = "/take" ->
              LET logged == logDose(doses, now)
                  dosesToday == getDosesToday(logged, now)
                  next == calculateNextTwoDoses(now, dosesToday,
                                                DOSES_PER_DAY, now).next
              IN  /\ IF fail = "logDose"
                     THEN /\ resp' = Swallowed(FALSE)
                          /\ UNCHANGED <<doses, due>>
                     ELSE IF fail = "getDosesToday"
                     THEN /\ resp' = Swallowed(FALSE)
                          /\ doses' = logged
                          /\ UNCHANGED due
                     ELSE /\ resp' = [Ack(sendOk) EXCEPT
                                          !.next = next, !.logged = now,
                                          !.dosesToday = dosesToday]
                          /\ doses' = logged
                          /\ due' = [dose |-> now, next |-> next]
                  /\ UNCHANGED chatId
         [] text = "/status" ->
              LET lastDoseTimestamp == getLastDose(doses)
                  dosesToday == getDosesToday(doses, now)
                  firstDoseEver == getFirstDoseEver(doses)
                  next == calculateNextTwoDoses(lastDoseTimestamp, dosesToday,
                                                DOSES_PER_DAY, now).next
                  maxDosesToday == getMaxDosesForToday(dosesToday,
                                                       firstDoseEver)
              IN  /\ IF fail \in {"getLastDose", "getDosesToday",
                                  "getFirstDoseEver"}
                     THEN resp' = Swallowed(FALSE)
                     ELSE resp' = [Ack(sendOk) EXCEPT
                                       !.next = next,
                                       !.dosesToday = dosesToday,
                                       !.maxDosesToday = maxDosesToday]
                  /\ UNCHANGED <<doses, chatId, due>>
         [] text = "/help" ->
              /\ resp' = Ack(sendOk)
              /\ UNCHANGED <<doses, chatId, due>>
         [] OTHER ->
              /\ resp' = Ack(FALSE)
              /\ UNCHANGED <<doses, chatId, due>>
    /\ UNCHANGED <<now, lastReminder, args, ret, inv, sentLog>>

notOverdueEnoughStrict(overdueMinutes) ==
    overdueMinutes <= REMINDER_THRESHOLD_MINS

\* line 30: if (overdueMinutes < 15) return "Not overdue enough"
notOverdueEnough(overdueMinutes) == overdueMinutes < REMINDER_THRESHOLD_MINS

remindedRecentlyHalfGap(lastReminderTime, t) ==
    ~Falsy(lastReminderTime) /\ t - lastReminderTime < REMINDER_GAP_MS \div 2

\* line 40: lastReminderTime && now - lastReminderTime < 30 * 60 * 1000
remindedRecently(lastReminderTime, t) ==
    ~Falsy(lastReminderTime) /\ t - lastReminderTime < REMINDER_GAP_MS

\* GET /api/cron/remind
Cron(authorized, fail, sendOk) ==
    LET lastDoseTimestamp == getLastDose(doses)
        dosesToday == getDosesToday(doses, now)
        overdueMinutes == getOverdueMinutes(lastDoseTimestamp, dosesToday,
                                            DOSES_PER_DAY, now)
    IN  /\ IF ~authorized
           THEN /\ resp' = Response("cron", 401, "Unauthorized", FALSE,
                                    Null, Null)
                /\ UNCHANGED lastReminder
           ELSE IF fail = "getTelegramChatId"
           THEN /\ resp' = Response("cron", 500, "Cron job failed", FALSE,
                                    Null, Null)
                /\ UNCHANGED lastReminder
           ELSE IF chatId = NullChat
           THEN /\ resp' = Response("cron", 200, "No chat ID configured",
                                    FALSE, Null, Null)
                /\ UNCHANGED lastReminder
           ELSE IF fail \in {"getLastDose", "getDosesToday"}
           THEN /\ resp' = Response("cron", 500, "Cron job failed", FALSE,
                                    Null, Null)
                /\ UNCHANGED lastReminder
           ELSE IF notOverdueEnough(overdueMinutes)
           THEN /\ resp' = Response("cron", 200, "Not overdue enough", FALSE,
                                    Null, overdueMinutes)
                /\ UNCHANGED lastReminder
           ELSE IF fail = "getLastReminderTime"
           THEN /\ resp' = Response("cron", 500, "Cron job failed", FALSE,
                                    Null, Null)
                /\ UNCHANGED lastReminder
           ELSE IF remindedRecently(lastReminder, now)
           THEN /\ resp' = [Response("cron", 200, "Reminder sent recently",
                                    FALSE, Null, Null)
                           EXCEPT !.lastReminderTime = lastReminder]
                /\ UNCHANGED lastReminder
           ELSE IF ~sendOk
           THEN /\ resp' = [Response("cron", 200, "Failed to send reminder",
                                    FALSE, Null, overdueMinutes)
                           EXCEPT !.lastReminderTime = lastReminder]
                /\ UNCHANGED lastReminder
           ELSE IF fail = "setLastReminderTime"
           THEN /\ resp' = [Response("cron", 500, "Cron job failed", TRUE,
                                    Null, Null)
                           EXCEPT !.lastReminderTime = lastReminder]
                /\ UNCHANGED lastReminder
           ELSE /\ resp' = [Response("cron", 200, "Reminder sent", TRUE,
                                    Null, overdueMinutes)
                           EXCEPT !.lastReminderTime = lastReminder]
                /\ lastReminder' = setLastReminderTime(now)
        /\ UNCHANGED <<now, doses, chatId, due, args, ret, inv, sentLog>>

BodyTimestamps == SysTimes \cup {Null}

Texts == {"", "/start", "/take", "/status", "/help", "hello"}

Next ==
    \/ Tick(SysTimes)
    \/ \E b \in BodyTimestamps, f \in PostFails, ok \in BOOLEAN :
          CanLog(IF Falsy(b) THEN now ELSE b) /\ PostDose(b, f, ok)
    \/ \E f \in GetFails : GetDose(f)
    \/ \E x \in Texts, c \in ChatIds, ok \in BOOLEAN :
          \E f \in WebhookFails(x) :
              (x = "/take" => CanLog(now)) /\ Webhook(x, c, f, ok)
    \/ \E a \in BOOLEAN, f \in CronFails, ok \in BOOLEAN : Cron(a, f, ok)

Spec == InitSystem /\ [][Next]_vars

(***************************************************************************)
(* The reminder loop: the user registers with /start and logs doses with   *)
(* /take, the scheduler invokes the cron handler, one invocation after     *)
(* another.                                                                *)
(***************************************************************************)
NextReminder ==
    \/ Tick(ReminderTimes)
    \/ \E c \in ChatIds : Webhook("/start", c, "none", TRUE)
    \/ CanLog(now) /\ Webhook("/take", "c1", "none", TRUE)
    \/ \E a \in BOOLEAN, f \in CronFails, ok \in BOOLEAN : Cron(a, f, ok)

SpecReminder == InitSystem /\ [][NextReminder]_vars

(***************************************************************************)
(* Properties of the engine (SpecEngine).                                  *)
(***************************************************************************)
IsNextDoseCall == ret.fn = "calculateNextDoseTime"

HasRecentLastDose ==
    /\ args.lastDoseTimestamp # Null
    /\ now - args.lastDoseTimestamp < 6 * 3600000

QuotaLeft == Len(args.dosesToday) < args.maxDosesToday

NineOClock == 9 * 3600000

\* C1: with a last dose less than 6 hours old and quota left, the result is
\* lastDose + 210 minutes when that instant's hour is in [9, 23), and
\* otherwise the first 09:00:00.000 strictly after it (same day before 09:00,
\* next day from 23:00 on).
C1_IntervalOrNextWake ==
    (IsNextDoseCall /\ HasRecentLastDose /\ QuotaLeft) =>
        LET raw  == args.lastDoseTimestamp + 210 * 60000
            hour == (raw % 86400000) \div 3600000
        IN  IF hour >= 9 /\ hour < 23
            THEN ret.next = raw
            ELSE /\ ret.next > raw
                 /\ ret.next - raw <= 86400000
                 /\ ret.next % 86400000 = NineOClock
                 /\ hour < 9 => ret.next \div 86400000 = raw \div 86400000
                 /\ hour >= 23 =>
                        ret.next \div 86400000 = raw \div 86400000 + 1

C1_Witness ==
    /\ IsNextDoseCall /\ HasRecentLastDose /\ QuotaLeft
    /\ (args.lastDoseTimestamp + 210 * 60000) % 86400000 = 23 * 3600000
    /\ ret.next = args.lastDoseTimestamp + 210 * 60000 + 10 * 3600000

\* C2: with no last dose, or a last dose 6 hours old or older (exactly 6
\* hours included), the result is the current time, whatever dosesToday,
\* maxDosesToday and the hour are; the rule wins over an exhausted quota.
C2_FirstDoseDueNow ==
    (IsNextDoseCall /\ (args.lastDoseTimestamp = Null
                        \/ now - args.lastDoseTimestamp >= 6 * 3600000)) =>
        ret.next = now

C2_Witness ==
    /\ IsNextDoseCall
    /\ args.lastDoseTimestamp # Null
    /\ now - args.lastDoseTimestamp = 6 * 3600000
    /\ ~QuotaLeft
    /\ ret.next = now

\* C3: with a last dose less than 6 hours old and the quota exhausted, the
\* result is 09:00:00.000 on the calendar day after the day of now.
C3_QuotaExhaustedTomorrow ==
    (IsNextDoseCall /\ HasRecentLastDose /\ ~QuotaLeft) =>
        ret.next = (now \div 86400000 + 1) * 86400000 + NineOClock

C3_Witness ==
    /\ IsNextDoseCall /\ HasRecentLastDose /\ ~QuotaLeft
    /\ args.lastDoseTimestamp \div 86400000 < now \div 86400000
    /\ ret.next = (now \div 86400000 + 1) * 86400000 + NineOClock

HourOf(d) == (d % 86400000) \div 3600000

\* C5 as stated: every result of calculateNextDoseTime has a local hour in
\* [9, 23).
C5_NeverAsleepAlways ==
    IsNextDoseCall => (HourOf(ret.next) >= 9 /\ HourOf(ret.next) < 23)

\* C5: when the last dose exists and is less than 6 hours old, the result of
\* calculateNextDoseTime has a local hour in [9, 23).
C5_NeverAsleepAfterRecentDose ==
    (IsNextDoseCall /\ HasRecentLastDose) =>
        (HourOf(ret.next) >= 9 /\ HourOf(ret.next) < 23)

C5_Witness ==
    /\ IsNextDoseCall /\ HasRecentLastDose /\ QuotaLeft
    /\ HourOf(args.lastDoseTimestamp + 210 * 60000) < 9
    /\ HourOf(now) < 9
    /\ HourOf(ret.next) = 9

\* C7: the pair returned by calculateNextTwoDoses satisfies nextNext >= next.
C7_NextNextNotBeforeNext ==
    ret.fn = "calculateNextTwoDoses" => ret.nextNext >= ret.next

C7_Witness ==
    /\ ret.fn = "calculateNextTwoDoses"
    /\ ret.next = now
    /\ Len(args.dosesToday) + 1 = args.maxDosesToday
    /\ ret.nextNext = (now \div 86400000 + 1) * 86400000 + NineOClock

\* C8: getOverdueMinutes is 999 without a last dose; otherwise, with due the
\* result of calculateNextDoseTime on the same arguments, it is 0 when
\* now <= due and the whole minutes of now - due, rounded down, when now > due.
C8_OverdueMinutes ==
    ret.fn = "getOverdueMinutes" =>
        IF args.lastDoseTimestamp = Null
        THEN ret.minutes = 999
        ELSE LET dueTime == calculateNextDoseTime(args.lastDoseTimestamp,
                                args.dosesToday, args.maxDosesToday, now)
             IN  /\ now <= dueTime => ret.minutes = 0
                 /\ now > dueTime =>
                       /\ ret.minutes * 60000 <= now - dueTime
                       /\ now - dueTime < (ret.minutes + 1) * 60000

C8_Witness ==
    /\ ret.fn = "getOverdueMinutes"
    /\ args.lastDoseTimestamp # Null
    /\ now = args.lastDoseTimestamp + 210 * 60000 + 46 * 60000
    /\ ret.minutes = 46

C8_WitnessUnderAMinute ==
    /\ ret.fn = "getOverdueMinutes"
    /\ args.lastDoseTimestamp # Null
    /\ now = args.lastDoseTimestamp + 210 * 60000 + 59999
    /\ ret.minutes = 0

(***************************************************************************)
(* The adherent user: logs the first dose of the run with POST /api/dose,  *)
(* waits until the next-dose time that request reported, logs again, and   *)
(* so on.  The web client passes no quota, so the quota is DOSES_PER_DAY.  *)
(***************************************************************************)
AdherentStartsOfDay ==
    { At(9, 0, 0, 0),  At(9, 0, 0, 1),  At(9, 30, 0, 0), At(10, 0, 0, 0),
      At(12, 29, 59, 999), At(12, 30, 0, 0), At(12, 30, 0, 1),
      At(15, 30, 0, 0), At(16, 0, 0, 0), At(19, 29, 59, 999),
      At(19, 30, 0, 0), At(21, 0, 0, 0), At(22, 59, 59, 999) }

InitAdherent ==
    /\ \E tod \in AdherentStartsOfDay : now = OnDay(1, tod)
    /\ doses = {}
    /\ lastReminder = Null
    /\ chatId = NullChat
    /\ due = NoDue
    /\ resp = NoResp
    /\ args = NoArgs
    /\ ret = NoRet
    /\ inv = NoInvocations
    /\ sentLog = {}

AdherentLog ==
    /\ doses = {} \/ (due.next = now /\ due.dose # now)
    /\ PostDose(Null, "none", TRUE)

AdherentWait ==
    /\ due.next # Null
    /\ due.next > now
    /\ getDay(due.next) <= MaxDay
    /\ now' = due.next
    /\ resp' = NoResp
    /\ UNCHANGED <<doses, lastReminder, chatId, due, args, ret, inv, sentLog>>

NextAdherent == AdherentLog \/ AdherentWait

SpecAdherent == InitAdherent /\ [][NextAdherent]_vars

(***************************************************************************)
(* Properties of the adherent user's day (SpecAdherent).                   *)
(***************************************************************************)
Logged == {e.score : e \in doses}

LoggedOn(d) == {x \in Logged : x \div 86400000 = d}

DayOver(d) == now >= (d + 1) * 86400000

FirstOn(d) == CHOOSE x \in LoggedOn(d) : \A y \in LoggedOn(d) : x <= y

Slot(d, h, m) == d * 86400000 + h * 3600000 + m * 60000

\* C4 as stated: a day whose first dose is logged at 09:00 and whose later
\* doses are logged at their reported due times has five doses, at 09:00,
\* 12:30, 16:00, 19:30 and 23:00.
C4_FiveDosesFromNine ==
    \A d \in Days :
        (LoggedOn(d) # {} /\ FirstOn(d) = Slot(d, 9, 0) /\ DayOver(d)) =>
            LoggedOn(d) = {Slot(d, 9, 0), Slot(d, 12, 30), Slot(d, 16, 0),
                           Slot(d, 19, 30), Slot(d, 23, 0)}

LateStart(d) ==
    /\ LoggedOn(d) # {}
    /\ FirstOn(d) > Slot(d, 9, 0)
    /\ FirstOn(d) < Slot(d, 23, 0)

\* C6 as stated: a day whose first dose is logged inside the wake window
\* after 09:00 gets four further doses, 210 minutes apart, on the same day.
C6_FourFurtherDoses ==
    \A d \in Days :
        (LateStart(d) /\ DayOver(d)) =>
            LoggedOn(d) = {FirstOn(d) + k * 210 * 60000 : k \in 0..4}

\* C6: a day whose first dose is logged inside the wake window after 09:00
\* gets further doses 210 minutes apart on the same day exactly as long as
\* the next multiple of 210 minutes after the first dose lies before 23:00;
\* that is at most three further doses, and the dose after them is due at
\* 09:00 of the next day.
C6_FurtherDosesUntilWakeEnd ==
    \A d \in Days :
        LateStart(d) =>
            LET slots == {FirstOn(d) + k * 210 * 60000 : k \in 0..4}
                open  == {x \in slots : x < Slot(d, 23, 0)}
            IN  /\ LoggedOn(d) \subseteq open
                /\ \A x \in LoggedOn(d) :
                      x # FirstOn(d) => (x - 210 * 60000) \in LoggedOn(d)
                /\ Cardinality(LoggedOn(d)) <= 4
                /\ DayOver(d) =>
                      /\ LoggedOn(d) = open
                      /\ \A x \in Logged : x >= (d + 1) * 86400000 =>
                             x >= Slot(d + 1, 9, 0)

C6_Witness ==
    /\ LateStart(1)
    /\ DayOver(1)
    /\ Cardinality(LoggedOn(1)) = 4
    /\ Slot(2, 9, 0) \in Logged

(***************************************************************************)
(* Properties of the reminder loop (SpecReminder).                         *)
(***************************************************************************)
CronRan == resp.op = "cron" /\ resp.status = 200

LastLogged == CHOOSE x \in Logged : \A y \in Logged : y <= x

\* C9: with a chat id configured, a dose logged and sends succeeding, a cron
\* invocation made 15 minutes or more after the due time that was reported
\* when the last dose was logged either sends a reminder or finds one sent
\* within the previous 30 minutes.
C9_RemindedWhenLate ==
    (/\ CronRan
     /\ resp.message # "Failed to send reminder"
     /\ chatId # NullChat
     /\ Logged # {}
     /\ due.dose = LastLogged
     /\ now >= due.next + 15 * 60000) =>
        \/ resp.sent
        \/ lastReminder # Null /\ now - lastReminder < 30 * 60000

\* C10: cron invocations that run one after another send reminders at least
\* 30 minutes apart: an invocation less than 30 minutes after the stored
\* last-reminder timestamp sends nothing, and the stored timestamp only moves
\* to the invocation's now, 30 minutes or more after its previous value.
C10_RemindersHalfHourApart ==
    [][/\ (resp'.op = "cron" /\ resp'.sent /\ lastReminder # Null) =>
              now - lastReminder >= 30 * 60000
       /\ lastReminder' # lastReminder =>
              /\ lastReminder' = now
              /\ resp'.sent
              /\ lastReminder # Null =>
                     lastReminder' - lastReminder >= 30 * 60000]_vars

C10_Witness ==
    /\ resp.op = "cron"
    /\ resp.message = "Reminder sent"
    /\ resp.lastReminderTime # Null
    /\ lastReminder = resp.lastReminderTime + 30 * 60000

(***************************************************************************)
(* Logging around midnight and around the validation limits: the clock     *)
(* stands at 20:30 of day 1 and at 00:30 of day 2, and POST /api/dose is   *)
(* called with timestamps on both sides of now - 4h, of now + 1min and of  *)
(* the day boundary.                                                       *)
(***************************************************************************)
LogNowTimes == { OnDay(1, At(20, 30, 0, 0)), OnDay(2, At(0, 30, 0, 0)) }

LogBodyTimestamps ==
    { Null,
      OnDay(1, At(20, 29, 59, 999)), OnDay(1, At(20, 30, 0, 0)),
      OnDay(1, At(23, 59, 59, 999)), OnDay(2, At(0, 0, 0, 0)),
      OnDay(2, At(0, 30, 0, 0)), OnDay(2, At(0, 31, 0, 0)),
      OnDay(2, At(0, 31, 0, 1)) }

NextLog ==
    \/ Tick(LogNowTimes)
    \/ \E b \in LogBodyTimestamps, f \in PostFails, ok \in BOOLEAN :
          CanLog(IF Falsy(b) THEN now ELSE b) /\ PostDose(b, f, ok)
    \/ \E x \in Texts, ok \in BOOLEAN :
          \E f \in WebhookFails(x) :
              (x = "/take" => CanLog(now)) /\ Webhook(x, "c1", f, ok)
    \/ \E a \in BOOLEAN, ok \in BOOLEAN : Cron(a, "none", ok)

SpecLog == InitSystem /\ [][NextLog]_vars

(***************************************************************************)
(* An afternoon of day one: doses logged minutes apart, by the bot and by  *)
(* POST with back-dated timestamps, and read back by GET, /status and cron.*)
(***************************************************************************)
DayNowTimes ==
    {OnDay(1, At(16, 1, 0, 0)), OnDay(1, At(16, 5, 0, 0)),
     OnDay(1, At(19, 50, 30, 0))}

DayBodyTimestamps ==
    {Null, OnDay(1, At(14, 0, 0, 0)), OnDay(1, At(16, 1, 0, 0))}

NextDay ==
    \/ Tick(DayNowTimes)
    \/ \E b \in DayBodyTimestamps, ok \in BOOLEAN :
          CanLog(IF Falsy(b) THEN now ELSE b) /\ PostDose(b, "none", ok)
    \/ \E f \in GetFails : GetDose(f)
    \/ \E x \in Texts, c \in ChatIds, ok \in BOOLEAN :
          \E f \in WebhookFails(x) :
              (x = "/take" => CanLog(now)) /\ Webhook(x, c, f, ok)
    \/ \E ok \in BOOLEAN : Cron(TRUE, "none", ok)

SpecDay == InitSystem /\ [][NextDay]_vars

(***************************************************************************)
(* Overlapping cron invocations.  GET /api/cron/remind awaits each store   *)
(* and notifier call, so two invocations interleave at those points.  The  *)
(* reads of the chat id and of the dose log are one step here (no handler  *)
(* that writes them runs in this specification); the read of the           *)
(* last-reminder timestamp, the send and the write are separate steps.     *)
(* sentLog holds the reminders delivered, overlapped and sawWrite record   *)
(* the history of an invocation: whether it ran while the other one was    *)
(* running, and whether the other one had written the timestamp before     *)
(* this one read it.                                                       *)
(***************************************************************************)
OverlapTimesOfDay ==
    { At(12, 45, 0, 0), At(13, 0, 0, 0), At(13, 14, 59, 999),
      At(13, 15, 0, 0), At(13, 45, 0, 0) }

OverlapTimes == {OnDay(1, tod) : tod \in OverlapTimesOfDay}

Other(i) == CHOOSE j \in Invocations : j # i

Running(i) == inv[i].pc \notin {"idle", "done"}

Finish(i, status, message) ==
    [inv[i] EXCEPT !.pc = "done", !.status = status, !.message = message]

\* the state after /start from chat c1 and /take at 09:00 of day 1, when the
\* dose due at 12:30 is 15 minutes late
InitOverlap ==
    /\ now = OnDay(1, At(12, 45, 0, 0))
    /\ doses = logDose({}, OnDay(1, At(9, 0, 0, 0)))
    /\ lastReminder = Null
    /\ chatId = "c1"
    /\ due = [dose |-> OnDay(1, At(9, 0, 0, 0)),
              next |-> OnDay(1, At(12, 30, 0, 0))]
    /\ resp = NoResp
    /\ args = NoArgs
    /\ ret = NoRet
    /\ inv = NoInvocations
    /\ sentLog = {}

\* lines 14-35: authorization, chat id, dose log, overdue minutes
CronStart(i, authorized, fail) ==
    LET lastDoseTimestamp == getLastDose(doses)
        dosesToday == getDosesToday(doses, now)
        overdueMinutes == getOverdueMinutes(lastDoseTimestamp, dosesToday,
                                            DOSES_PER_DAY, now)
        mine == [inv[i] EXCEPT !.overlapped = Running(Other(i))]
        both == [inv EXCEPT ![Other(i)].overlapped =
                                @ \/ Running(Other(i))]
    IN  /\ inv[i].pc = "idle"
        /\ inv' = [both EXCEPT ![i] =
              IF ~authorized
              THEN [mine EXCEPT !.pc = "done", !.status = 401,
                                !.message = "Unauthorized"]
              ELSE IF fail = "getTelegramChatId"
              THEN [mine EXCEPT !.pc = "done", !.status = 500,
                                !.message = "Cron job failed"]
              ELSE IF chatId = NullChat
              THEN [mine EXCEPT !.pc = "done", !.status = 200,
                                !.message = "No chat ID configured"]
              ELSE IF fail \in {"getLastDose", "getDosesToday"}
              THEN [mine EXCEPT !.pc = "done", !.status = 500,
                                !.message = "Cron job failed"]
              ELSE IF notOverdueEnough(overdueMinutes)
              THEN [mine EXCEPT !.pc = "done", !.status = 200,
                                !.message = "Not overdue enough",
                                !.overdueMinutes = overdueMinutes]
              ELSE [mine EXCEPT !.pc = "gate",
                                !.overdueMinutes = overdueMinutes]]
        /\ UNCHANGED <<now, doses, lastReminder, chatId, due, resp, args,
                       ret, sentLog>>

\* lines 38-42: read the last-reminder timestamp, read the clock, gate
CronGate(i, fail) ==
    LET seen == [inv[i] EXCEPT !.now = now,
                               !.lastReminderTime = lastReminder,
                               !.sawWrite = inv[Other(i)].pc = "done" /\
                                            inv[Other(i)].message =
                                                "Reminder sent"]
    IN  /\ inv[i].pc = "gate"
        /\ inv' = [inv EXCEPT ![i] =
              IF fail = "getLastReminderTime"
              THEN [inv[i] EXCEPT !.pc = "done", !.status = 500,
                                  !.message = "Cron job failed"]
              ELSE IF remindedRecently(lastReminder, now)
              THEN [seen EXCEPT !.pc = "done", !.status = 200,
                                !.message = "Reminder sent recently"]
              ELSE [seen EXCEPT !.pc = "send"]]
        /\ UNCHANGED <<now, doses, lastReminder, chatId, due, resp, args,
                       ret, sentLog>>

\* line 45: sendReminder
CronSend(i, sendOk) ==
    /\ inv[i].pc = "send"
    /\ IF sendOk
       THEN /\ sentLog' = sentLog \cup {[by |-> i, at |-> inv[i].now]}
            /\ inv' = [inv EXCEPT ![i].pc = "write"]
       ELSE /\ inv' = [inv EXCEPT ![i] =
                          Finish(i, 200, "Failed to send reminder")]
            /\ UNCHANGED sentLog
    /\ UNCHANGED <<now, doses, lastReminder, chatId, due, resp, args, ret>>

\* lines 46-53: setLastReminderTime(now) and the response
CronWrite(i, fail) ==
    /\ inv[i].pc = "write"
    /\ IF fail = "setLastReminderTime"
       THEN /\ inv' = [inv EXCEPT ![i] = Finish(i, 500, "Cron job failed")]
            /\ UNCHANGED lastReminder
       ELSE /\ inv' = [inv EXCEPT ![i] = Finish(i, 200, "Reminder sent")]
            /\ lastReminder' = setLastReminderTime(inv[i].now)
    /\ UNCHANGED <<now, doses, chatId, due, resp, args, ret, sentLog>>

NextOverlap ==
    \/ Tick(OverlapTimes)
    \/ \E i \in Invocations, a \in BOOLEAN,
          f \in {"none", "getTelegramChatId", "getLastDose"} :
          CronStart(i, a, f)
    \/ \E i \in Invocations, f \in {"none", "getLastReminderTime"} :
          CronGate(i, f)
    \/ \E i \in Invocations, ok \in BOOLEAN : CronSend(i, ok)
    \/ \E i \in Invocations, f \in {"none", "setLastReminderTime"} :
          CronWrite(i, f)

SpecOverlap == InitOverlap /\ [][NextOverlap]_vars

(***************************************************************************)
(* Properties of overlapping cron invocations (SpecOverlap).               *)
(***************************************************************************)
Overlapped == \E i \in Invocations : inv[i].overlapped

\* C11 as stated: two overlapping cron invocations send at most one
\* reminder.
C11_AtMostOneReminder == Overlapped => Cardinality(sentLog) <= 1

PassedGate(i) ==
    \/ inv[i].pc \in {"send", "write"}
    \/ \E r \in sentLog : r.by = i

\* C11: two overlapping cron invocations each send at most one reminder, so
\* at most two are sent; an invocation sends only if the last-reminder
\* timestamp it read was absent or 30 minutes or more before its own now, so
\* an invocation that reads the timestamp after the other one wrote it, less
\* than 30 minutes earlier, sends nothing.
C11_DuplicatesOnlyBeforeWrite ==
    /\ Cardinality(sentLog) <= 2
    /\ \A r1, r2 \in sentLog : r1.by = r2.by => r1 = r2
    /\ \A i \in Invocations :
          PassedGate(i) =>
              /\ \/ inv[i].lastReminderTime = Null
                 \/ inv[i].now - inv[i].lastReminderTime >= 30 * 60000
              /\ inv[i].sawWrite =>
                     inv[i].now - inv[Other(i)].now >= 30 * 60000

C11_Witness ==
    /\ Overlapped
    /\ Cardinality(sentLog) = 2
    /\ \A i \in Invocations : inv[i].pc = "done" /\ ~inv[i].sawWrite
    /\ \E r1, r2 \in sentLog : r1.by # r2.by /\ r2.at - r1.at < 30 * 60000

(***************************************************************************)
(* Properties of logging (SpecLog).                                        *)
(***************************************************************************)
InSeq(x, seq) == \E k \in 1..Len(seq) : seq[k] = x

\* C12: for every dose accepted by POST /api/dose or by /take, the
\* today's-doses list passed to calculateNextTwoDoses contains the timestamp
\* that was just logged.
C12_ReadAfterWrite ==
    resp.logged # Null => InSeq(resp.logged, resp.dosesToday)

\* C13: POST /api/dose accepts a timestamp exactly when
\* now - 4h <= timestamp <= now + 1min; outside that range it answers 400
\* (a dependency failure answers 500) and leaves the dose log unchanged.
C13_ValidationWindow ==
    [][resp'.op = "postDose" =>
          LET ts == resp'.timestamp
              inRange == now - 4 * 3600000 <= ts /\ ts <= now + 60000
          IN  /\ resp'.status \in {200, 400, 500}
              /\ resp'.status = 400 <=> ~inRange
              /\ resp'.status = 400 => doses' = doses
              /\ resp'.status = 200 => \E e \in doses' : e.score = ts]_vars

C13_Witness ==
    /\ resp.op = "postDose"
    /\ resp.status = 200
    /\ resp.logged = now - 4 * 3600000
    /\ \E e \in doses : e.score = now + 60000

(***************************************************************************)
(* Properties of the day's quota (SpecQuota).                              *)
(***************************************************************************)
MinuteOfDay(t) == (t % 86400000) \div 60000

\* the quota of day one as the specification states it
SlotsMissed(m) ==
    CHOOSE k \in 0..5 : k * 210 >= m - 540 /\ (k - 1) * 210 < m - 540

StatedFirstDayMax(m) ==
    IF m <= 540 THEN 5
    ELSE IF m >= 1380 THEN 1
    ELSE IF 5 - SlotsMissed(m) >= 1 THEN 5 - SlotsMissed(m) ELSE 1

IsDayOne ==
    /\ args.firstDoseEver # Null
    /\ Len(args.dosesToday) > 0
    /\ args.dosesToday[1] \div 86400000 = args.firstDoseEver \div 86400000

\* C14: getMaxDosesForToday is 5 when no dose was ever recorded, when
\* dosesToday is empty or when its first entry is on another local day than
\* firstDoseEver; only when they are on the same local day it is the
\* first-day quota of firstDoseEver.
C14_DefaultQuotaUnlessDayOne ==
    ret.fn = "getMaxDosesForToday" =>
        IF IsDayOne
        THEN ret.quota = StatedFirstDayMax(MinuteOfDay(args.firstDoseEver))
        ELSE ret.quota = 5

C14_Witness ==
    /\ ret.fn = "getMaxDosesForToday"
    /\ IsDayOne
    /\ args.dosesToday[1] # args.firstDoseEver
    /\ ret.quota = 2

C14_WitnessOtherDay ==
    /\ ret.fn = "getMaxDosesForToday"
    /\ ~IsDayOne
    /\ Len(args.dosesToday) > 0
    /\ args.firstDoseEver # Null
    /\ args.dosesToday[1] - args.firstDoseEver < 86400000
    /\ MinuteOfDay(args.firstDoseEver) > 540
    /\ ret.quota = 5

\* C15: calculateFirstDayMax, for a first dose m minutes after local
\* midnight, is 5 if m <= 540, 1 if m >= 1380 and max(1, 5 - ceil((m-540)/210))
\* otherwise; it is an integer in 1..5 and never increases as the time of day
\* of the first dose gets later.
C15_FirstDayMax ==
    ret.fn = "calculateFirstDayMax" =>
        /\ ret.quota = StatedFirstDayMax(MinuteOfDay(args.firstDoseEver))
        /\ ret.quota \in 1..5
        /\ \A later \in QuotaTimes :
              later % 86400000 >= args.firstDoseEver % 86400000 =>
                  calculateFirstDayMax(later) <= ret.quota

C15_Witness ==
    /\ ret.fn = "calculateFirstDayMax"
    /\ args.firstDoseEver % 86400000 = 15 * 3600000 + 30 * 60000
    /\ ret.quota = 3

(***************************************************************************)
(* Properties of the dose log and of the webhook (SpecLog).                *)
(***************************************************************************)
\* C16: the dose log only grows: no step removes or changes a recorded dose
\* event, and a step that logs a timestamp already in the log leaves the log
\* unchanged; no two events of the log carry the same timestamp.
C16_LogOnlyGrows ==
    [][/\ doses \subseteq doses'
       /\ \A e \in doses' \ doses :
             \A f \in doses : f.score # e.score /\ f.member # e.member
       /\ (resp'.logged # Null /\ resp'.logged \in Logged) => doses' = doses
       /\ Cardinality({e.score : e \in doses'}) = Cardinality(doses')]_vars

C16_Witness ==
    /\ now = OnDay(2, At(0, 30, 0, 0))
    /\ resp.logged = now
    /\ Cardinality(doses) = 2
    /\ \E e \in doses : e.score = OnDay(1, At(20, 29, 59, 999))

StartOfToday == (now \div 86400000) * 86400000

TodayLogged ==
    {x \in Logged : StartOfToday <= x /\ x <= StartOfToday + 86399999}

\* C17: in every state of the log getLastDose is the maximum recorded
\* timestamp (null iff the log is empty), getFirstDoseEver the minimum, and
\* getDosesToday lists, in ascending order, exactly the recorded timestamps
\* from today 00:00:00.000 to today 23:59:59.999 local time.
C17_DerivedViews ==
    LET last == getLastDose(doses)
        first == getFirstDoseEver(doses)
        today == getDosesToday(doses, now)
    IN  /\ last = Null <=> Logged = {}
        /\ first = Null <=> Logged = {}
        /\ Logged # {} => /\ last \in Logged /\ \A x \in Logged : x <= last
                          /\ first \in Logged /\ \A x \in Logged : first <= x
        /\ {today[k] : k \in 1..Len(today)} = TodayLogged
        /\ \A j, k \in 1..Len(today) : j < k => today[j] < today[k]

C17_Witness ==
    /\ now = OnDay(2, At(0, 30, 0, 0))
    /\ Logged = {OnDay(1, At(23, 59, 59, 999)), OnDay(2, 0)}
    /\ getDosesToday(doses, now) = <<OnDay(2, 0)>>
    /\ getLastDose(doses) = OnDay(2, 0)
    /\ getFirstDoseEver(doses) = OnDay(1, At(23, 59, 59, 999))

\* C18: every invocation of the Telegram webhook ends with the success
\* acknowledgment (status 200, ok), also for a payload without text, an
\* unknown command, and a failure of the store or of the notifier.
C18_WebhookAlwaysAcknowledges ==
    resp.op = "webhook" => resp.status = 200 /\ resp.message = "ok"

C18_Witness ==
    /\ resp.op = "webhook"
    /\ resp.caught
    /\ resp.status = 200
    /\ now \in Logged

(***************************************************************************)
(* Properties of the rendering (SpecFormat).                               *)
(***************************************************************************)
RenderedMinutes ==
    IF ret.text.h = Null THEN ret.text.m ELSE ret.text.h * 60 + ret.text.m

\* C20: formatTimeUntil, with d = target - now: for d >= 0 it renders
\* floor(d / 60000) minutes, as "in {m}m" below 60 and as "in {h}h {m}m"
\* otherwise; for d < 0 it renders the overdue minutes (whole minutes, a
\* started minute counting), as "{m}m overdue" below 60 and as
\* "{h}h {m}m overdue" otherwise; 95 minutes in the past is "1h 35m overdue".
C20_FormatTimeUntil ==
    ret.fn = "formatTimeUntil" =>
        LET d == args.targetDate - now
            text == ret.text
        IN  /\ d >= 0 =>
                 /\ RenderedMinutes * 60000 <= d
                 /\ d < (RenderedMinutes + 1) * 60000
                 /\ text.form = IF RenderedMinutes < 60 THEN "in {m}m"
                                ELSE "in {h}h {m}m"
            /\ d < 0 =>
                 /\ (RenderedMinutes - 1) * 60000 < -d
                 /\ -d <= RenderedMinutes * 60000
                 /\ text.form = IF RenderedMinutes < 60 THEN "{m}m overdue"
                                ELSE "{h}h {m}m overdue"
            /\ text.h # Null => text.h >= 1 /\ text.m \in 0..59
            /\ text.h = Null <=> RenderedMinutes < 60
            /\ (0 <= d /\ d < 60000) =>
                 text = [form |-> "in {m}m", h |-> Null, m |-> 0]
            /\ d = -(95 * 60000) =>
                 text = [form |-> "{h}h {m}m overdue", h |-> 1, m |-> 35]

C20_Witness ==
    /\ ret.fn = "formatTimeUntil"
    /\ args.targetDate = now - 95 * 60000
    /\ ret.text = [form |-> "{h}h {m}m overdue", h |-> 1, m |-> 35]

C20_WitnessInZeroMinutes ==
    /\ ret.fn = "formatTimeUntil"
    /\ args.targetDate = now + 59999
    /\ ret.text = [form |-> "in {m}m", h |-> Null, m |-> 0]

(***************************************************************************)
(* The two-dose preview (SpecEngine).                                      *)
(***************************************************************************)
NextIsToday(next) == StartOfToday <= next /\ next <= StartOfToday + 86399999

\* C21: calculateNextTwoDoses computes nextNext as
\* calculateNextDoseTime(next, S, maxDosesToday), where S is dosesToday with
\* next appended if and only if next lies within today's local day (else S is
\* dosesToday), and it leaves the caller's dosesToday list unchanged.
C21_SimulatedTodayList ==
    [][ret'.fn = "calculateNextTwoDoses" =>
          LET S == IF NextIsToday(ret'.next)
                   THEN args.dosesToday \o <<ret'.next>>
                   ELSE args.dosesToday
          IN  /\ ret'.nextNext = calculateNextDoseTime(ret'.next, S,
                                     args.maxDosesToday, now)
              /\ args' = args]_vars

C21_Witness ==
    /\ ret.fn = "calculateNextTwoDoses"
    /\ ~NextIsToday(ret.next)
    /\ Len(args.dosesToday) = args.maxDosesToday - 1
    /\ ret.nextNext = ret.next + 210 * 60000

C21_WitnessToday ==
    /\ ret.fn = "calculateNextTwoDoses"
    /\ NextIsToday(ret.next)
    /\ Len(args.dosesToday) = args.maxDosesToday - 1
    /\ ret.nextNext = (now \div 86400000 + 1) * 86400000 + 9 * 3600000

(***************************************************************************)
(* Properties of the cron handler (SpecReminder).                          *)
(***************************************************************************)
\* C22: the cron handler sends a reminder only if the dose is overdue by more
\* than 15 minutes: the overdue minutes of every invocation that sent a
\* reminder are strictly greater than 15.
C22_SendsOnlyBeyondThreshold ==
    (resp.op = "cron" /\ resp.sent /\ resp.status = 200) =>
        resp.overdueMinutes > 15

\* C23: the stored last-reminder timestamp changes only when a reminder was
\* actually sent: an invocation that sends nothing leaves it unchanged, and
\* an invocation whose send succeeds overwrites it with its now.
C23_TimestampFollowsSend ==
    [][/\ lastReminder' # lastReminder => resp'.op = "cron" /\ resp'.sent
       /\ (resp'.op = "cron" /\ ~resp'.sent) => lastReminder' = lastReminder
       /\ (resp'.op = "cron" /\ resp'.sent) => lastReminder' = now]_vars

\* C23, amended: as above, but a successful send is followed by the overwrite
\* only if the store write succeeds; if it fails the invocation answers 500
\* and the timestamp keeps its old value although the reminder went out.
C23_TimestampFollowsSendAndWrite ==
    [][/\ lastReminder' # lastReminder => resp'.op = "cron" /\ resp'.sent
       /\ (resp'.op = "cron" /\ ~resp'.sent) => lastReminder' = lastReminder
       /\ (resp'.op = "cron" /\ resp'.sent) =>
              /\ resp'.status \in {200, 500}
              /\ resp'.status = 200 => lastReminder' = now
              /\ resp'.status = 500 => lastReminder' = lastReminder]_vars

C23_Witness ==
    /\ resp.op = "cron"
    /\ resp.sent
    /\ resp.status = 200
    /\ resp.lastReminderTime # Null
    /\ resp.lastReminderTime < now
    /\ lastReminder = now

C23_WitnessWriteFailed ==
    /\ resp.op = "cron"
    /\ resp.sent
    /\ resp.status = 500
    /\ lastReminder = resp.lastReminderTime

(***************************************************************************)
(* The range of the overdue count (SpecEngine).                            *)
(***************************************************************************)
\* C24: whenever a last dose exists, getOverdueMinutes is at most 149 for
\* every now, dosesToday and maxDosesToday, so a real overdue count never
\* equals the never-dosed sentinel 999.
C24_OverdueBelowSentinel ==
    (ret.fn = "getOverdueMinutes" /\ args.lastDoseTimestamp # Null) =>
        /\ ret.minutes \in 0..149
        /\ ret.minutes # 999

C24_Witness ==
    /\ ret.fn = "getOverdueMinutes"
    /\ args.lastDoseTimestamp # Null
    /\ now - args.lastDoseTimestamp = 6 * 3600000 - 1
    /\ ret.minutes = 149

\* C25: the two previewed doses of calculateNextTwoDoses are distinct
\* instants: nextNext is strictly later than next for every last dose (or
\* none), dosesToday, maxDosesToday and now.
C25_NextNextStrictlyLater ==
    ret.fn = "calculateNextTwoDoses" => ret.nextNext > ret.next

(***************************************************************************)
(* Failure of POST /api/dose (SpecLog).                                    *)
(***************************************************************************)
\* C27: if POST /api/dose answers with its failure response (status 500,
\* "Failed to log dose"), the dose log is unchanged: that request recorded no
\* dose event, whichever call failed.
C27_FailureLeavesLogUnchanged ==
    [][(resp'.op = "postDose" /\ resp'.status = 500) => doses' = doses]_vars

(***************************************************************************)
(* What the handlers report about the same log (SpecDay).                  *)
(***************************************************************************)
\* the next-dose time GET /api/dose reports on the current log at now
GetNextDose ==
    calculateNextTwoDoses(getLastDose(doses), getDosesToday(doses, now),
                          5, now).next

\* C26: the next-dose time that POST /api/dose returns equals the one GET
\* /api/dose would report on the same log at the same instant, for every
\* accepted timestamp, also one earlier than a dose already in the log.
C26_PostAgreesWithGet ==
    (resp.op = "postDose" /\ resp.status = 200) => resp.next = GetNextDose

TomorrowNine == (now \div 86400000 + 1) * 86400000 + 9 * 3600000

ShownQuotaExhausted ==
    /\ resp.op = "webhook"
    /\ resp.maxDosesToday # Null
    /\ Logged # {}
    /\ now - LastLogged < 6 * 3600000
    /\ Len(resp.dosesToday) >= resp.maxDosesToday

\* C28: the quota shown by /status is the quota the schedule uses: whenever
\* the last dose is less than 6 hours old and today's doses number at least
\* the maxDosesToday shown, the next-dose time of that message, of GET
\* /api/dose and of the cron handler is 09:00 of the following day.
C28_ShownQuotaIsUsed ==
    ShownQuotaExhausted =>
        /\ resp.next = TomorrowNine
        /\ GetNextDose = TomorrowNine
        /\ calculateNextDoseTime(getLastDose(doses),
               getDosesToday(doses, now), 5, now) = TomorrowNine

ShownOverdueMinutes ==
    IF resp.timeUntil.h = Null THEN resp.timeUntil.m
    ELSE resp.timeUntil.h * 60 + resp.timeUntil.m

\* C29: for the same due time and the same now with now > due, the overdue
\* minutes rendered by formatTimeUntil(due) equal getOverdueMinutes' value
\* floor((now - due) / 60000), also when now - due is not a whole number of
\* minutes.
C29_RenderedOverdueAgrees ==
    (resp.op = "getDose" /\ resp.status = 200 /\ now > resp.next) =>
        /\ resp.overdueMinutes = (now - resp.next) \div 60000
        /\ ShownOverdueMinutes = resp.overdueMinutes

(***************************************************************************)
(* Who writes what (SpecDay).                                              *)
(***************************************************************************)
\* C30: the stored chat id changes only through /start, which sets it to the
\* id of the sending chat, overwriting an earlier one; every other command
\* and handler leaves it unchanged, and only /take and an accepted POST
\* /api/dose add to the dose log.
C30_OnlyStartSetsChatId ==
    [][/\ chatId' # chatId =>
              \E c \in ChatIds, ok \in BOOLEAN :
                  Webhook("/start", c, "none", ok) /\ chatId' = c
       /\ \A c \in ChatIds, ok \in BOOLEAN :
              Webhook("/start", c, "none", ok) => chatId' = c
       /\ doses' # doses =>
              \/ \E c \in ChatIds, f \in WebhookFails("/take"),
                    ok \in BOOLEAN : Webhook("/take", c, f, ok)
              \/ /\ resp'.op = "postDose"
                 /\ resp'.status # 400
                 /\ \E b \in DayBodyTimestamps, ok \in BOOLEAN :
                       PostDose(b, "none", ok)]_vars

C30_Witness ==
    /\ resp.op = "webhook"
    /\ resp.sent
    /\ chatId = "c2"
    /\ Cardinality(doses) = 2
    /\ lastReminder # Null

====
